---- MODULE Spec2Model ----
(***************************************************************************)
(* PayPay relay backend (src/server.js): the request-signing function      *)
(* generateAuthHeader and the route handlers that call it.                 *)
(*                                                                         *)
(* A JavaScript string is a sequence of one-character strings.  The base64 *)
(* text of a digest is one opaque symbol of such a sequence: MD5 and       *)
(* HMAC-SHA256 are ideal (injective) functions of their inputs.            *)
(* A value that may be undefined is a record [has, v].                     *)
(***************************************************************************)
EXTENDS Integers, Sequences, FiniteSets, TLC

VARIABLES
    MOCK_MODE,     \* server.js:20
    API_KEY,       \* server.js:25  process.env.PAYPAY_API_KEY
    API_SECRET,    \* server.js:26  process.env.PAYPAY_API_SECRET
    MERCHANT_ID,   \* server.js:27  process.env.PAYPAY_MERCHANT_ID
    phase,         \* "boot", "listening" or "exited"
    nowMs,         \* Date.now()
    reqs,          \* inbound requests, in order of arrival
    signed,        \* every call of generateAuthHeader, in order
    outbound,      \* every axios call, in order
    harness        \* arguments of direct calls of generateAuthHeader

vars == <<MOCK_MODE, API_KEY, API_SECRET, MERCHANT_ID, phase, nowMs, reqs,
          signed, outbound, harness>>

-----------------------------------------------------------------------------
(* Bounds of the model *)

\* Date.now() when the process starts: just before a whole second
ClockStartMs == 9500
\* how many times the clock advances
MaxTicks == 1
\* how many inbound requests arrive
MaxReqs == 2

(* Program constants *)

\* one clock step, in ms; Date.now() / 1000 has 1000 ms to the second
MsPerSecond == 1000
\* crypto.randomBytes(16)
NonceBytes == 16

TickMs == MsPerSecond \div 2

-----------------------------------------------------------------------------
(* Strings *)

Undefined == [has |-> FALSE, v |-> <<>>]
Some(s) == [has |-> TRUE, v |-> s]

\* the JavaScript string as one TLC string
RECURSIVE Flat(_)
Flat(s) ==
    IF s = <<>> THEN ""
    ELSE IF Len(s) = 1 THEN s[1]
    ELSE Flat(SubSeq(s, 1, Len(s) \div 2))
         \o Flat(SubSeq(s, Len(s) \div 2 + 1, Len(s)))

WhiteSpace == {" ", "\t", "\n", "\r"}

RECURSIVE TrimStart(_)
TrimStart(s) ==
    IF s # <<>> /\ Head(s) \in WhiteSpace THEN TrimStart(Tail(s)) ELSE s

RECURSIVE TrimEnd(_)
TrimEnd(s) ==
    IF s # <<>> /\ s[Len(s)] \in WhiteSpace
    THEN TrimEnd(SubSeq(s, 1, Len(s) - 1))
    ELSE s

\* String.prototype.trim
Trim(s) == TrimEnd(TrimStart(s))

Digit(d) == <<"0", "1", "2", "3", "4", "5", "6", "7", "8", "9">>[d + 1]

\* `${n}` of a non-negative integer
RECURSIVE NumberToString(_)
NumberToString(n) ==
    IF n < 10 THEN <<Digit(n)>>
    ELSE NumberToString(n \div 10) \o <<Digit(n % 10)>>

HexDigit(d) ==
    <<"0", "1", "2", "3", "4", "5", "6", "7",
      "8", "9", "a", "b", "c", "d", "e", "f">>[d + 1]

\* Buffer.toString('hex')
RECURSIVE ToHex(_)
ToHex(bytes) ==
    IF bytes = <<>> THEN <<>>
    ELSE <<HexDigit(Head(bytes) \div 16), HexDigit(Head(bytes) % 16)>>
         \o ToHex(Tail(bytes))

\* `${x}` of a string that may be undefined
Template(x) == IF x.has THEN x.v ELSE <<"u", "n", "d", "e", "f", "i", "n", "e", "d">>

\* !x of a string that may be undefined
Falsy(x) == ~x.has \/ x.v = <<>>

-----------------------------------------------------------------------------
(* crypto *)

\* crypto.createHash('md5').update(a).update(b).digest('base64')
Md5Base64(a, b) == <<"md5(" \o Flat(a \o b) \o ")">>

\* crypto.createHmac('sha256', key).update(msg).digest('base64')
HmacSha256Base64(key, msg) ==
    <<"hmac-sha256[" \o Flat(key) \o "](" \o Flat(msg) \o ")">>

\* what crypto.randomBytes(16) may return, of the 2^128 outcomes
RandomByteValues == {10, 243}
randomBytes == {[i \in 1..NonceBytes |-> b] : b \in RandomByteValues}

-----------------------------------------------------------------------------
(* generateAuthHeader, server.js:186-224 *)

GET == <<"G", "E", "T">>
POST == <<"P", "O", "S", "T">>
EMPTY == <<"e", "m", "p", "t", "y">>
APPLICATION_JSON ==
    <<"a", "p", "p", "l", "i", "c", "a", "t", "i", "o", "n", "/", "j", "s", "o", "n">>

\* function generateAuthHeader(method, resourceUrl, body = '')
DefaultBody(body) == IF body.has THEN body.v ELSE <<>>

\* the rule of src/unnamed/part_001: the method is not looked at
ContentHash_AnyMethod(method, body) ==
    IF body # <<>> /\ Trim(body) # <<>>
    THEN Md5Base64(APPLICATION_JSON, body)
    ELSE EMPTY

\* the body is trimmed before it is hashed
ContentHash_Trimmed(method, body) ==
    IF body # <<>> /\ Trim(body) # <<>> /\ method # GET
    THEN Md5Base64(APPLICATION_JSON, Trim(body))
    ELSE EMPTY

\* Step 1, server.js:191-197
ContentHash(method, body) ==
    IF body # <<>> /\ Trim(body) # <<>> /\ method # GET
    THEN Md5Base64(APPLICATION_JSON, body)
    ELSE EMPTY

\* the content hash of src/unnamed/part_001, lines 67-73: the method is not
\* looked at
ContentHash_part_001(method, body) ==
    IF body # <<>> /\ Trim(body) # <<>>
    THEN Md5Base64(APPLICATION_JSON, body)
    ELSE EMPTY

NL == <<"\n">>

SignatureString_NoTrailingNewline(method, resourceUrl, key, timestamp, nonce, contentHash) ==
    method \o NL \o resourceUrl \o NL \o Template(key) \o NL
    \o NumberToString(timestamp) \o NL \o nonce \o NL \o contentHash

SignatureString_NoNonce(method, resourceUrl, key, timestamp, nonce, contentHash) ==
    method \o NL \o resourceUrl \o NL \o Template(key) \o NL
    \o NumberToString(timestamp) \o NL \o contentHash \o NL

SignatureString_NoTimestamp(method, resourceUrl, key, timestamp, nonce, contentHash) ==
    method \o NL \o resourceUrl \o NL \o Template(key) \o NL
    \o nonce \o NL \o contentHash \o NL

\* Step 2, server.js:201
SignatureString(method, resourceUrl, key, timestamp, nonce, contentHash) ==
    method \o NL \o resourceUrl \o NL \o Template(key) \o NL
    \o NumberToString(timestamp) \o NL \o nonce \o NL \o contentHash \o NL

\* Step 4, server.js:213
AuthValue(key, signature, nonce, timestamp) ==
    <<"h", "m", "a", "c", " ", "O", "P", "A", "-", "A", "u", "t", "h", ":">>
    \o Template(key) \o <<":">> \o signature \o <<":">> \o nonce \o <<":">>
    \o NumberToString(timestamp)

NoHeaders ==
    [Authorization |-> <<>>, ContentType |-> <<>>, XAssumeMerchant |-> Undefined]

\* Steps 3 and 4 and the return, server.js:209-223
Step4(method, resourceUrl, bodyArg, timestamp, nonce, contentHash, signatureString, threw, signature) ==
    [ method |-> method, resourceUrl |-> resourceUrl, body |-> bodyArg,
      key |-> API_KEY, secret |-> API_SECRET, merchant |-> MERCHANT_ID,
      timestamp |-> timestamp, nonce |-> nonce,
      contentHash |-> contentHash, signatureString |-> signatureString,
      threw |-> threw, signature |-> signature,
      headers |->
        IF threw THEN NoHeaders
        ELSE [ Authorization |-> AuthValue(API_KEY, signature, nonce, timestamp),
               ContentType |-> APPLICATION_JSON,
               XAssumeMerchant |-> MERCHANT_ID ] ]

\* API_SECRET.substring (server.js:205) throws a TypeError when the secret is
\* undefined: the signature string is built by then, the signature and the
\* headers are not.
Step3(method, resourceUrl, bodyArg, timestamp, nonce, contentHash, signatureString) ==
    Step4(method, resourceUrl, bodyArg, timestamp, nonce, contentHash,
          signatureString, ~API_SECRET.has,
          IF API_SECRET.has
          THEN HmacSha256Base64(API_SECRET.v, signatureString)
          ELSE <<>>)

Step2(method, resourceUrl, bodyArg, timestamp, nonce, contentHash) ==
    Step3(method, resourceUrl, bodyArg, timestamp, nonce, contentHash,
          SignatureString(method, resourceUrl, API_KEY, timestamp, nonce, contentHash))

\* One call: the locals of the function and what it returns
generateAuthHeader(method, resourceUrl, bodyArg, now, random) ==
    Step2(method, resourceUrl, bodyArg, now \div MsPerSecond, ToHex(random),
          ContentHash(method, DefaultBody(bodyArg)))

-----------------------------------------------------------------------------
(* The environment the process is started in *)

EnvKeys == {Undefined, Some(<<"a", "k">>)}
EnvSecrets == {Undefined, Some(<<"s", "1">>), Some(<<"s", "2">>)}
EnvMerchants == {Undefined, Some(<<"m", "1">>)}

\* Date.now() moves on
Tick ==
    /\ nowMs < ClockStartMs + MaxTicks * TickMs
    /\ nowMs' = nowMs + TickMs
    /\ UNCHANGED <<MOCK_MODE, API_KEY, API_SECRET, MERCHANT_ID, phase, reqs,
                   signed, outbound, harness>>

-----------------------------------------------------------------------------
(* Direct calls of generateAuthHeader: two runs on drawn arguments *)

Runs == {1, 2}
Methods == {GET, POST}
ResourceUrls == {<<"/", "a">>, <<"/", "b">>}
Bodies == {Undefined, Some(<<>>), Some(<<" ">>), Some(<<"\n">>),
           Some(<<"x">>), Some(<<"x", " ">>)}
Arguments == [method : Methods, resourceUrl : ResourceUrls, body : Bodies]

\* how many of the three arguments differ
Differences(a, b) ==
    (IF a.method = b.method THEN 0 ELSE 1)
    + (IF a.resourceUrl = b.resourceUrl THEN 0 ELSE 1)
    + (IF a.body = b.body THEN 0 ELSE 1)

InitSign ==
    /\ MOCK_MODE = FALSE
    /\ API_KEY = Some(<<"a", "k">>)
    /\ API_SECRET \in EnvSecrets \ {Undefined}
    /\ MERCHANT_ID = Some(<<"m", "1">>)
    /\ phase = "boot"
    /\ nowMs = ClockStartMs
    /\ reqs = <<>>
    /\ signed = <<>>
    /\ outbound = <<>>
    /\ harness \in {h \in [Runs -> [args : Arguments, done : {FALSE}]] :
                       Differences(h[1].args, h[2].args) <= 1}

\* one run: generateAuthHeader(method, resourceUrl, body)
HarnessCall(i) ==
    /\ ~harness[i].done
    /\ \E random \in randomBytes :
         signed' = Append(signed,
            [by |-> i] @@ generateAuthHeader(harness[i].args.method,
                                             harness[i].args.resourceUrl,
                                             harness[i].args.body, nowMs, random))
    /\ harness' = [harness EXCEPT ![i].done = TRUE]
    /\ UNCHANGED <<MOCK_MODE, API_KEY, API_SECRET, MERCHANT_ID, phase, nowMs,
                   reqs, outbound>>

\* the process is started again with another PAYPAY_API_SECRET (server.js:26)
RestartWithSecret ==
    /\ \E s \in EnvSecrets \ {Undefined, API_SECRET} : API_SECRET' = s
    /\ UNCHANGED <<MOCK_MODE, API_KEY, MERCHANT_ID, phase, nowMs, reqs, signed,
                   outbound, harness>>

NextSign ==
    \/ Tick
    \/ \E i \in Runs : HarnessCall(i)
    \/ RestartWithSecret

SpecSign == InitSign /\ [][NextSign]_vars

-----------------------------------------------------------------------------
(* The server: configuration and start, server.js:19-27, 178-183, 439-450 *)

\* server.js:23
PAYPAY_API_BASE ==
    <<"h", "t", "t", "p", "s", ":", "/", "/", "s", "t", "g", "-", "a", "p",
    "i", ".", "p", "a", "y", "p", "a", "y", ".", "n", "e", ".", "j", "p">>

\* server.js:41-42
SANDBOX_URL ==
    <<"h", "t", "t", "p", "s", ":", "/", "/", "s", "t", "g", "-", "a", "p",
    "i", ".", "p", "a", "y", "p", "a", "y", ".", "n", "e", ".", "j", "p">>
PRODUCTION_URL ==
    <<"h", "t", "t", "p", "s", ":", "/", "/", "a", "p", "i", ".", "p", "a",
    "y", "p", "a", "y", ".", "n", "e", ".", "j", "p">>

environments ==
    << [name |-> <<"S", "a", "n", "d", "b", "o", "x">>, url |-> SANDBOX_URL],
       [name |-> <<"P", "r", "o", "d", "u", "c", "t", "i", "o", "n">>, url |-> PRODUCTION_URL] >>

\* String.prototype.toLowerCase, on the letters the environment names hold
ToLowerCase(s) ==
    [i \in 1..Len(s) |-> IF s[i] = "S" THEN "s" ELSE IF s[i] = "P" THEN "p" ELSE s[i]]

\* axios timeouts, in ms
CreatePaymentTimeoutMs == 30000
PaymentStatusTimeoutMs == 15000
TestPayPayTimeoutMs == 30000
TestEnvironmentsTimeoutMs == 10000

\* amount of the test payments
TestAmount == 100

UndefinedNumber == [has |-> FALSE, v |-> 0]
SomeNumber(n) == [has |-> TRUE, v |-> n]
\* !x of a number that may be undefined
FalsyNumber(x) == ~x.has \/ x.v = 0

\* the configurations the process is started in: without the mock flag, any
\* of the three credentials may be absent; with it, all or none
Configurations ==
    { c \in [mock : BOOLEAN, key : EnvKeys, secret : EnvSecrets \ {Some(<<"s", "2">>)},
             merchant : EnvMerchants] :
        c.mock => (c.key.has = c.secret.has /\ c.secret.has = c.merchant.has) }

Init ==
    /\ \E c \in Configurations :
         /\ MOCK_MODE = c.mock
         /\ API_KEY = c.key
         /\ API_SECRET = c.secret
         /\ MERCHANT_ID = c.merchant
    /\ phase = "boot"
    /\ nowMs = ClockStartMs
    /\ reqs = <<>>
    /\ signed = <<>>
    /\ outbound = <<>>
    /\ harness = <<>>

CredentialsMissing == Falsy(API_KEY) \/ Falsy(API_SECRET) \/ Falsy(MERCHANT_ID)

\* server.js:179-183: process.exit(1)
ExitAtStartup ==
    /\ phase = "boot"
    /\ ~MOCK_MODE /\ CredentialsMissing
    /\ phase' = "exited"
    /\ UNCHANGED <<MOCK_MODE, API_KEY, API_SECRET, MERCHANT_ID, nowMs, reqs,
                   signed, outbound, harness>>

\* the server listens whatever the credentials are
Listen_Unchecked ==
    /\ phase = "boot"
    /\ phase' = "listening"
    /\ UNCHANGED <<MOCK_MODE, API_KEY, API_SECRET, MERCHANT_ID, nowMs, reqs,
                   signed, outbound, harness>>

\* server.js:440: app.listen
Listen ==
    /\ phase = "boot"
    /\ ~(~MOCK_MODE /\ CredentialsMissing)
    /\ phase' = "listening"
    /\ UNCHANGED <<MOCK_MODE, API_KEY, API_SECRET, MERCHANT_ID, nowMs, reqs,
                   signed, outbound, harness>>

-----------------------------------------------------------------------------
(* JSON *)

\* a JSON string literal: quotes and backslashes are escaped
RECURSIVE JsonEscape(_)
JsonEscape(s) ==
    IF s = <<>> THEN <<>>
    ELSE IF Len(s) = 1
    THEN (IF s[1] \in {"\"", "\\"} THEN <<"\\", s[1]>> ELSE s)
    ELSE JsonEscape(SubSeq(s, 1, Len(s) \div 2))
         \o JsonEscape(SubSeq(s, Len(s) \div 2 + 1, Len(s)))

JsonString(s) == <<"\"">> \o JsonEscape(s) \o <<"\"">>

JPY ==
    <<"J", "P", "Y">>
ORDER_QR ==
    <<"O", "R", "D", "E", "R", "_", "Q", "R">>
REDIRECT_URL ==
    <<"p", "a", "y", "p", "a", "y", "f", "l", "u", "t", "t", "e", "r", "d",
    "e", "m", "o", ":", "/", "/", "p", "a", "y", "m", "e", "n", "t", "-",
    "s", "u", "c", "c", "e", "s", "s">>
APP_DEEP_LINK ==
    <<"A", "P", "P", "_", "D", "E", "E", "P", "_", "L", "I", "N", "K">>

\* the payment payload, server.js:277-288 (and 49-60, 105-116)
PaymentData(merchantPaymentId, amount, orderDescription, now) ==
    [ merchantPaymentId |-> merchantPaymentId,
      amount |-> [amount |-> amount, currency |-> JPY],
      orderDescription |-> orderDescription,
      codeType |-> ORDER_QR,
      redirectUrl |-> REDIRECT_URL,
      redirectType |-> APP_DEEP_LINK,
      requestedAt |-> now \div MsPerSecond ]

NoPaymentData == PaymentData(<<>>, 0, <<>>, 0)

\* JSON.stringify(paymentData): the keys in the order the object literal gives
JsonStringify(d) ==
    <<"{", "\"", "m", "e", "r", "c", "h", "a", "n", "t", "P", "a", "y", "m", "e", "n", "t", "I", "d", "\"", ":">> \o JsonString(d.merchantPaymentId)
    \o <<",", "\"", "a", "m", "o", "u", "n", "t", "\"", ":", "{", "\"", "a", "m", "o", "u", "n", "t", "\"", ":">> \o NumberToString(d.amount.amount)
    \o <<",", "\"", "c", "u", "r", "r", "e", "n", "c", "y", "\"", ":">> \o JsonString(d.amount.currency)
    \o <<"}", ",", "\"", "o", "r", "d", "e", "r", "D", "e", "s", "c", "r", "i", "p", "t", "i", "o", "n", "\"", ":">> \o JsonString(d.orderDescription)
    \o <<",", "\"", "c", "o", "d", "e", "T", "y", "p", "e", "\"", ":">> \o JsonString(d.codeType)
    \o <<",", "\"", "r", "e", "d", "i", "r", "e", "c", "t", "U", "r", "l", "\"", ":">> \o JsonString(d.redirectUrl)
    \o <<",", "\"", "r", "e", "d", "i", "r", "e", "c", "t", "T", "y", "p", "e", "\"", ":">> \o JsonString(d.redirectType)
    \o <<",", "\"", "r", "e", "q", "u", "e", "s", "t", "e", "d", "A", "t", "\"", ":">> \o NumberToString(d.requestedAt)
    \o <<"}">>

-----------------------------------------------------------------------------
(* The provider *)

\* a response body of the provider (or of the mock): whether it holds a
\* nested data object, and the deeplink and the payment status in it
Body(nested, deeplink, status) ==
    [nested |-> nested, deeplink |-> deeplink, status |-> status]

NoBody == Body(FALSE, Undefined, "")

PROVIDER_DEEPLINK ==
    <<"p", "a", "y", "p", "a", "y", ":", "/", "/", "x">>

\* how an axios call ends: a 2xx answer with a body, an error status with or
\* without a payload, no answer at all, or the timeout
Outcome(kind, status, data) == [kind |-> kind, status |-> status, data |-> data]

Pending == Outcome("pending", 0, [has |-> FALSE, v |-> NoBody])

OkNested ==
    Outcome("ok", 200, [has |-> TRUE, v |-> Body(TRUE, Some(PROVIDER_DEEPLINK), "CREATED")])
OkFlat == Outcome("ok", 200, [has |-> TRUE, v |-> Body(FALSE, Undefined, "")])
Http404 == Outcome("http_error", 404, [has |-> TRUE, v |-> Body(FALSE, Undefined, "")])
Http500 == Outcome("http_error", 500, [has |-> FALSE, v |-> NoBody])
NetworkFailure == Outcome("network", 0, [has |-> FALSE, v |-> NoBody])
Timeout == Outcome("timeout", 0, [has |-> FALSE, v |-> NoBody])

\* the ways the provider calls of the payment routes end
ProviderOutcomes == {OkNested, OkFlat, Http404, Http500, NetworkFailure, Timeout}
\* the ways the provider calls of the test routes end
TestOutcomes == {OkNested, NetworkFailure}

\* axios resolves on 2xx and rejects otherwise; error.response is set only
\* when the provider answered
Resolved(o) == o.kind = "ok"
HasErrorResponse(o) == o.kind = "http_error"

\* one axios call: axios.post(url, payload, {headers, timeout}) or axios.get
AxiosCall(r, method, base, path, payload, headers, timeout) ==
    [ by |-> r, method |-> method, base |-> base, path |-> path,
      payload |-> payload, headers |-> headers, timeout |-> timeout,
      outcome |-> Pending ]

\* the axios call request r is waiting for
PendingCall(r) ==
    CHOOSE k \in 1..Len(outbound) :
        outbound[k].by = r /\ outbound[k].outcome = Pending

-----------------------------------------------------------------------------
(* Inbound requests and responses *)

NoInput ==
    [amount |-> UndefinedNumber, merchantPaymentId |-> Undefined,
     description |-> Undefined]

NewRequest(route, input) ==
    [ route |-> route, input |-> input, pc |-> "start", env |-> 0,
      results |-> <<>>, responses |-> <<>> ]

\* res.status(status).json({success, error, data, deeplink, mockMode})
Response(status, success, error, data, deeplink, mockMode) ==
    [ status |-> status, success |-> success, error |-> error, data |-> data,
      deeplink |-> deeplink, mockMode |-> mockMode ]

NoData == [has |-> FALSE, v |-> NoBody]

\* a handler that answers and is done
Answered(q, response) ==
    [q EXCEPT !.pc = "done", !.responses = Append(@, response)]

CanArrive == phase = "listening" /\ Len(reqs) < MaxReqs

\* GET /health, server.js:30-36
Health ==
    /\ CanArrive
    /\ reqs' = Append(reqs, Answered(NewRequest("/health", NoInput),
                  Response(200, Undefined, "", NoData, Undefined, Some(MOCK_MODE))))
    /\ UNCHANGED <<MOCK_MODE, API_KEY, API_SECRET, MERCHANT_ID, phase, nowMs,
                   signed, outbound, harness>>

\* GET /debug, server.js:157-176
Debug ==
    /\ CanArrive
    /\ reqs' = Append(reqs, Answered(NewRequest("/debug", NoInput),
                  Response(200, Undefined, "", NoData, Undefined, Some(MOCK_MODE))))
    /\ UNCHANGED <<MOCK_MODE, API_KEY, API_SECRET, MERCHANT_ID, phase, nowMs,
                   signed, outbound, harness>>

\* any other route: the 404 handler, server.js:431-437
EndpointNotFound ==
    /\ CanArrive
    /\ reqs' = Append(reqs, Answered(NewRequest("*", NoInput),
                  Response(404, Some(FALSE), "Endpoint not found", NoData,
                           Undefined, Some(MOCK_MODE))))
    /\ UNCHANGED <<MOCK_MODE, API_KEY, API_SECRET, MERCHANT_ID, phase, nowMs,
                   signed, outbound, harness>>

-----------------------------------------------------------------------------
(* The handlers *)

CODES_URL ==
    <<"/", "v", "2", "/", "c", "o", "d", "e", "s">>
PAYMENTS_URL ==
    <<"/", "v", "2", "/", "p", "a", "y", "m", "e", "n", "t", "s", "/">>
MOCK_DEEPLINK ==
    <<"p", "a", "y", "p", "a", "y", ":", "/", "/", "p", "a", "y", "m", "e",
    "n", "t", "?", "l", "i", "n", "k", "_", "i", "d", "=", "m", "o", "c",
    "k", "_">>
AMOUNT_PARAM ==
    <<"&", "a", "m", "o", "u", "n", "t", "=">>
COMPLETED ==
    <<"C", "O", "M", "P", "L", "E", "T", "E", "D">>

NoError == [text |-> "", payload |-> NoData]
ErrorText(t) == [text |-> t, payload |-> NoData]

\* error.response?.data || fallback
ErrorOf(error, fallback) ==
    IF HasErrorResponse(error) /\ error.data.has
    THEN [text |-> "", payload |-> error.data]
    ELSE ErrorText(fallback)

\* what a catch block gets when the handler's own code threw
Thrown == Outcome("thrown", 0, NoData)

\* log of generateAuthHeader calls, with the request that made the call
Logged(r, call) == [by |-> r] @@ call

\* the bodies of POST /create-payment: at most one field is missing
CreateInputs ==
    { i \in [ amount : {UndefinedNumber, SomeNumber(100)},
              merchantPaymentId : {Undefined, Some(<<"a", "b", "c">>)},
              description : {Undefined, Some(<<"t", "e", "s", "t">>)} ] :
        Cardinality({f \in {"a", "m", "d"} :
            \/ f = "a" /\ ~i.amount.has
            \/ f = "m" /\ ~i.merchantPaymentId.has
            \/ f = "d" /\ ~i.description.has}) <= 1 }

StatusIds == {<<"a", "b", "c">>}

\* the amount is not checked
MissingRequiredFields_NoAmount(input) ==
    Falsy(input.merchantPaymentId) \/ Falsy(input.description)

\* server.js:232
MissingRequiredFields(input) ==
    \/ FalsyNumber(input.amount)
    \/ Falsy(input.merchantPaymentId)
    \/ Falsy(input.description)

\* server.js:233-236
ValidationFailure ==
    Response(400, Some(FALSE),
             ErrorText("Missing required fields: amount, merchantPaymentId, description"),
             NoData, Undefined, Undefined)

\* the amount is left out of the link
MockDeeplink_NoAmount(merchantPaymentId, amount) ==
    MOCK_DEEPLINK \o Template(merchantPaymentId)

\* server.js:258 and 271
MockDeeplink(merchantPaymentId, amount) ==
    MOCK_DEEPLINK \o Template(merchantPaymentId) \o AMOUNT_PARAM
    \o NumberToString(amount.v)

\* server.js:247-273
MockCreateResponse(input) ==
    Response(200, Some(TRUE), NoError,
             [has |-> TRUE,
              v |-> Body(TRUE, Some(MockDeeplink(input.merchantPaymentId, input.amount)), "")],
             Some(MockDeeplink(input.merchantPaymentId, input.amount)), Some(TRUE))

\* server.js:348-377
MockStatusResponse(input) ==
    Response(200, Some(TRUE), NoError,
             [has |-> TRUE, v |-> Body(TRUE, Undefined, Flat(COMPLETED))],
             Undefined, Some(TRUE))

\* the catch block of /create-payment, server.js:318-326
CreatePaymentCatch(error) ==
    Response(500, Some(FALSE), ErrorOf(error, "Payment creation failed"),
             NoData, Undefined, Some(MOCK_MODE))

\* the 404 of the catch block answers every failure
PaymentStatusCatch_Always404(error) ==
    Response(404, Some(FALSE), ErrorText("Payment not found"), NoData,
             Undefined, Some(MOCK_MODE))

\* the catch block of /payment-status, server.js:400-417
PaymentStatusCatch(error) ==
    IF HasErrorResponse(error) /\ error.status = 404
    THEN Response(404, Some(FALSE), ErrorText("Payment not found"), NoData,
                  Undefined, Some(MOCK_MODE))
    ELSE Response(500, Some(FALSE), ErrorOf(error, "Failed to get payment status"),
                  NoData, Undefined, Some(MOCK_MODE))

\* the catch block of /test-paypay, server.js:142-155
TestPayPayCatch(error) ==
    Response(500, Some(FALSE), ErrorOf(error, "error.message"), NoData,
             Undefined, Undefined)

\* the payload is built once more after the signing, with the amount as a
\* fresh value: what is sent is not what was signed
CreatePayment_Rebuilt(input) ==
    /\ CanArrive
    /\ LET r == Len(reqs) + 1
           q == NewRequest("/create-payment", input)
       IN  IF MissingRequiredFields(input)
           THEN /\ reqs' = Append(reqs, Answered(q, ValidationFailure))
                /\ UNCHANGED <<signed, outbound>>
           ELSE IF MOCK_MODE
           THEN /\ reqs' = Append(reqs, [q EXCEPT !.pc = "mock_delay"])
                /\ UNCHANGED <<signed, outbound>>
           ELSE \E random \in randomBytes :
                \E paymentData \in {PaymentData(input.merchantPaymentId.v,
                                    input.amount.v, input.description.v, nowMs)} :
                \E call \in {generateAuthHeader(POST, CODES_URL,
                                  Some(JsonStringify(paymentData)), nowMs, random)} :
                      /\ signed' = Append(signed, Logged(r, call))
                      /\ IF call.threw
                         THEN /\ reqs' = Append(reqs, Answered(q, CreatePaymentCatch(Thrown)))
                              /\ outbound' = outbound
                         ELSE /\ reqs' = Append(reqs, [q EXCEPT !.pc = "await"])
                              /\ outbound' = Append(outbound,
                                    AxiosCall(r, POST, PAYPAY_API_BASE, CODES_URL,
                                              PaymentData(input.merchantPaymentId.v,
                                                  input.amount.v + 1,
                                                  input.description.v, nowMs),
                                              call.headers,
                                              CreatePaymentTimeoutMs))
    /\ UNCHANGED <<MOCK_MODE, API_KEY, API_SECRET, MERCHANT_ID, phase, nowMs, harness>>

\* POST /create-payment up to its first await, server.js:227-307
CreatePayment(input) ==
    /\ CanArrive
    /\ LET r == Len(reqs) + 1
           q == NewRequest("/create-payment", input)
       IN  IF MissingRequiredFields(input)
           THEN /\ reqs' = Append(reqs, Answered(q, ValidationFailure))
                /\ UNCHANGED <<signed, outbound>>
           ELSE IF MOCK_MODE
           THEN /\ reqs' = Append(reqs, [q EXCEPT !.pc = "mock_delay"])
                /\ UNCHANGED <<signed, outbound>>
           ELSE \E random \in randomBytes :
                \E paymentData \in {PaymentData(input.merchantPaymentId.v,
                                    input.amount.v, input.description.v, nowMs)} :
                \E call \in {generateAuthHeader(POST, CODES_URL,
                                  Some(JsonStringify(paymentData)), nowMs, random)} :
                      /\ signed' = Append(signed, Logged(r, call))
                      /\ IF call.threw
                         THEN /\ reqs' = Append(reqs, Answered(q, CreatePaymentCatch(Thrown)))
                              /\ outbound' = outbound
                         ELSE /\ reqs' = Append(reqs, [q EXCEPT !.pc = "await"])
                              /\ outbound' = Append(outbound,
                                    AxiosCall(r, POST, PAYPAY_API_BASE, CODES_URL,
                                              paymentData, call.headers,
                                              CreatePaymentTimeoutMs))
    /\ UNCHANGED <<MOCK_MODE, API_KEY, API_SECRET, MERCHANT_ID, phase, nowMs, harness>>

\* the TypeError of response.data.data.deeplink is not caught: the handler
\* ends without an answer
CreatePaymentAnswered_Uncaught(r, o) ==
    /\ r \in 1..Len(reqs)
    /\ reqs[r].route = "/create-payment" /\ reqs[r].pc = "await"
    /\ outbound' = [outbound EXCEPT ![PendingCall(r)].outcome = o]
    /\ reqs' = [reqs EXCEPT ![r] =
          IF Resolved(o)
          THEN IF o.data.v.nested
               THEN Answered(@, Response(200, Some(TRUE), NoError, o.data,
                                         o.data.v.deeplink, Some(FALSE)))
               ELSE [@ EXCEPT !.pc = "done"]
          ELSE Answered(@, CreatePaymentCatch(o))]
    /\ UNCHANGED <<MOCK_MODE, API_KEY, API_SECRET, MERCHANT_ID, phase, nowMs,
                   signed, harness>>

\* /create-payment after axios.post, server.js:309-326.  response.data.data.deeplink
\* throws a TypeError when the body holds no nested data object.
CreatePaymentAnswered(r, o) ==
    /\ r \in 1..Len(reqs)
    /\ reqs[r].route = "/create-payment" /\ reqs[r].pc = "await"
    /\ outbound' = [outbound EXCEPT ![PendingCall(r)].outcome = o]
    /\ reqs' = [reqs EXCEPT ![r] =
          IF Resolved(o)
          THEN IF o.data.v.nested
               THEN Answered(@, Response(200, Some(TRUE), NoError, o.data,
                                         o.data.v.deeplink, Some(FALSE)))
               ELSE Answered(@, CreatePaymentCatch(Thrown))
          ELSE Answered(@, CreatePaymentCatch(o))]
    /\ UNCHANGED <<MOCK_MODE, API_KEY, API_SECRET, MERCHANT_ID, phase, nowMs,
                   signed, harness>>

\* the status call is signed with a body
PaymentStatus_WithBody(merchantPaymentId) ==
    /\ CanArrive
    /\ LET r == Len(reqs) + 1
           input == [NoInput EXCEPT !.merchantPaymentId = Some(merchantPaymentId)]
           q == NewRequest("/payment-status", input)
       IN  IF Falsy(input.merchantPaymentId)
           THEN /\ reqs' = Append(reqs, Answered(q,
                       Response(400, Some(FALSE),
                                ErrorText("Missing merchantPaymentId parameter"),
                                NoData, Undefined, Undefined)))
                /\ UNCHANGED <<signed, outbound>>
           ELSE IF MOCK_MODE
           THEN /\ reqs' = Append(reqs, [q EXCEPT !.pc = "mock_delay"])
                /\ UNCHANGED <<signed, outbound>>
           ELSE \E random \in randomBytes :
                \E resourceUrl \in {PAYMENTS_URL \o merchantPaymentId} :
                \E call \in {generateAuthHeader(GET, resourceUrl,
                                  Some(<<"{", "}">>), nowMs, random)} :
                      /\ signed' = Append(signed, Logged(r, call))
                      /\ IF call.threw
                         THEN /\ reqs' = Append(reqs, Answered(q, PaymentStatusCatch(Thrown)))
                              /\ outbound' = outbound
                         ELSE /\ reqs' = Append(reqs, [q EXCEPT !.pc = "await"])
                              /\ outbound' = Append(outbound,
                                    AxiosCall(r, GET, PAYPAY_API_BASE, resourceUrl,
                                              NoPaymentData, call.headers,
                                              PaymentStatusTimeoutMs))
    /\ UNCHANGED <<MOCK_MODE, API_KEY, API_SECRET, MERCHANT_ID, phase, nowMs, harness>>

\* GET /payment-status/:merchantPaymentId up to its first await, server.js:330-392
PaymentStatus(merchantPaymentId) ==
    /\ CanArrive
    /\ LET r == Len(reqs) + 1
           input == [NoInput EXCEPT !.merchantPaymentId = Some(merchantPaymentId)]
           q == NewRequest("/payment-status", input)
       IN  IF Falsy(input.merchantPaymentId)
           THEN /\ reqs' = Append(reqs, Answered(q,
                       Response(400, Some(FALSE),
                                ErrorText("Missing merchantPaymentId parameter"),
                                NoData, Undefined, Undefined)))
                /\ UNCHANGED <<signed, outbound>>
           ELSE IF MOCK_MODE
           THEN /\ reqs' = Append(reqs, [q EXCEPT !.pc = "mock_delay"])
                /\ UNCHANGED <<signed, outbound>>
           ELSE \E random \in randomBytes :
                \E resourceUrl \in {PAYMENTS_URL \o merchantPaymentId} :
                \E call \in {generateAuthHeader(GET, resourceUrl, Undefined, nowMs, random)} :
                      /\ signed' = Append(signed, Logged(r, call))
                      /\ IF call.threw
                         THEN /\ reqs' = Append(reqs, Answered(q, PaymentStatusCatch(Thrown)))
                              /\ outbound' = outbound
                         ELSE /\ reqs' = Append(reqs, [q EXCEPT !.pc = "await"])
                              /\ outbound' = Append(outbound,
                                    AxiosCall(r, GET, PAYPAY_API_BASE, resourceUrl,
                                              NoPaymentData, call.headers,
                                              PaymentStatusTimeoutMs))
    /\ UNCHANGED <<MOCK_MODE, API_KEY, API_SECRET, MERCHANT_ID, phase, nowMs, harness>>

\* a failed axios.get is tried once more
PaymentStatusAnswered_Retry(r, o) ==
    /\ r \in 1..Len(reqs)
    /\ reqs[r].route = "/payment-status" /\ reqs[r].pc = "await"
    /\ IF Resolved(o) \/ Cardinality({k \in 1..Len(outbound) : outbound[k].by = r}) > 1
       THEN /\ outbound' = [outbound EXCEPT ![PendingCall(r)].outcome = o]
            /\ reqs' = [reqs EXCEPT ![r] =
                  IF Resolved(o)
                  THEN Answered(@, Response(200, Some(TRUE), NoError, o.data,
                                            Undefined, Some(FALSE)))
                  ELSE Answered(@, PaymentStatusCatch(o))]
       ELSE /\ outbound' = Append([outbound EXCEPT ![PendingCall(r)].outcome = o],
                                  [outbound[PendingCall(r)] EXCEPT !.outcome = Pending])
            /\ reqs' = reqs
    /\ UNCHANGED <<MOCK_MODE, API_KEY, API_SECRET, MERCHANT_ID, phase, nowMs,
                   signed, harness>>

\* /payment-status after axios.get, server.js:394-417
PaymentStatusAnswered(r, o) ==
    /\ r \in 1..Len(reqs)
    /\ reqs[r].route = "/payment-status" /\ reqs[r].pc = "await"
    /\ outbound' = [outbound EXCEPT ![PendingCall(r)].outcome = o]
    /\ reqs' = [reqs EXCEPT ![r] =
          IF Resolved(o)
          THEN Answered(@, Response(200, Some(TRUE), NoError, o.data, Undefined,
                                    Some(FALSE)))
          ELSE Answered(@, PaymentStatusCatch(o))]
    /\ UNCHANGED <<MOCK_MODE, API_KEY, API_SECRET, MERCHANT_ID, phase, nowMs,
                   signed, harness>>

\* the setTimeout of a mock branch fires, server.js:245-273 and 346-377
MockDelayElapsed(r) ==
    /\ r \in 1..Len(reqs)
    /\ reqs[r].pc = "mock_delay"
    /\ reqs' = [reqs EXCEPT ![r] =
          IF @.route = "/create-payment"
          THEN Answered(@, MockCreateResponse(@.input))
          ELSE Answered(@, MockStatusResponse(@.input))]
    /\ UNCHANGED <<MOCK_MODE, API_KEY, API_SECRET, MERCHANT_ID, phase, nowMs,
                   signed, outbound, harness>>

TEST_ ==
    <<"t", "e", "s", "t", "_">>
TEST_PAYMENT ==
    <<"T", "e", "s", "t", " ", "P", "a", "y", "m", "e", "n", "t">>

\* GET /test-paypay up to its await, server.js:103-134: MOCK_MODE is not
\* looked at
TestPayPay ==
    /\ CanArrive
    /\ \E random \in randomBytes :
       \E testPaymentData \in {PaymentData(TEST_ \o NumberToString(nowMs),
                                             TestAmount, TEST_PAYMENT, nowMs)} :
       \E call \in {generateAuthHeader(POST, CODES_URL,
                         Some(JsonStringify(testPaymentData)), nowMs, random)} :
         LET r == Len(reqs) + 1
             q == NewRequest("/test-paypay", NoInput)
         IN  /\ signed' = Append(signed, Logged(r, call))
             /\ IF call.threw
                THEN /\ reqs' = Append(reqs, Answered(q, TestPayPayCatch(Thrown)))
                     /\ outbound' = outbound
                ELSE /\ reqs' = Append(reqs, [q EXCEPT !.pc = "await"])
                     /\ outbound' = Append(outbound,
                           AxiosCall(r, POST, PAYPAY_API_BASE, CODES_URL,
                                     testPaymentData, call.headers,
                                     TestPayPayTimeoutMs))
    /\ UNCHANGED <<MOCK_MODE, API_KEY, API_SECRET, MERCHANT_ID, phase, nowMs, harness>>

\* /test-paypay after axios.post, server.js:136-155
TestPayPayAnswered(r, o) ==
    /\ r \in 1..Len(reqs)
    /\ reqs[r].route = "/test-paypay" /\ reqs[r].pc = "await"
    /\ outbound' = [outbound EXCEPT ![PendingCall(r)].outcome = o]
    /\ reqs' = [reqs EXCEPT ![r] =
          IF Resolved(o)
          THEN Answered(@, Response(200, Some(TRUE), NoError, o.data, Undefined,
                                    Undefined))
          ELSE Answered(@, TestPayPayCatch(o))]
    /\ UNCHANGED <<MOCK_MODE, API_KEY, API_SECRET, MERCHANT_ID, phase, nowMs,
                   signed, harness>>

\* the payload of one turn of the loop, server.js:49-60
EnvironmentPaymentData(i, now) ==
    PaymentData(TEST_ \o NumberToString(now) \o <<"_">>
                    \o ToLowerCase(environments[i].name),
                TestAmount, TEST_PAYMENT \o <<" ">> \o environments[i].name, now)

\* results.push, server.js:77-81 and 86-93
EnvironmentResult(i, o) ==
    [environment |-> environments[i].name, success |-> Resolved(o),
     status |-> o.status]

\* res.json({message, results}), server.js:98-101
EnvironmentsResponse == Response(200, Undefined, NoError, NoData, Undefined, Undefined)

\* GET /test-paypay-environments up to its first await, server.js:39-75.  A
\* turn whose generateAuthHeader throws goes through its catch to the next
\* turn at once.
TestEnvironments ==
    /\ CanArrive
    /\ \E random \in randomBytes :
       \E data \in {EnvironmentPaymentData(1, nowMs)} :
       \E call \in {generateAuthHeader(POST, CODES_URL, Some(JsonStringify(data)),
                                        nowMs, random)} :
         LET r == Len(reqs) + 1
             q == NewRequest("/test-paypay-environments", NoInput)
         IN  IF call.threw
             THEN \E random2 \in randomBytes :
                  \E call2 \in {generateAuthHeader(POST, CODES_URL,
                                     Some(JsonStringify(EnvironmentPaymentData(2, nowMs))),
                                     nowMs, random2)} :
                        /\ signed' = signed \o <<Logged(r, call), Logged(r, call2)>>
                        /\ reqs' = Append(reqs, Answered(
                              [q EXCEPT !.env = 2,
                                        !.results = <<EnvironmentResult(1, Thrown),
                                                      EnvironmentResult(2, Thrown)>>],
                              EnvironmentsResponse))
                        /\ outbound' = outbound
             ELSE /\ signed' = Append(signed, Logged(r, call))
                  /\ reqs' = Append(reqs, [q EXCEPT !.pc = "await", !.env = 1])
                  /\ outbound' = Append(outbound,
                        AxiosCall(r, POST, environments[1].url, CODES_URL, data,
                                  call.headers, TestEnvironmentsTimeoutMs))
    /\ UNCHANGED <<MOCK_MODE, API_KEY, API_SECRET, MERCHANT_ID, phase, nowMs, harness>>

\* /test-paypay-environments after an axios.post, server.js:77-101: the
\* result is pushed, then the next turn runs up to its await, or the loop is
\* over and the results are sent
TestEnvironmentsAnswered(r, o) ==
    /\ r \in 1..Len(reqs)
    /\ reqs[r].route = "/test-paypay-environments" /\ reqs[r].pc = "await"
    /\ LET q == [reqs[r] EXCEPT !.results = Append(@, EnvironmentResult(reqs[r].env, o))]
           answered == [outbound EXCEPT ![PendingCall(r)].outcome = o]
       IN  IF q.env = Len(environments)
           THEN /\ reqs' = [reqs EXCEPT ![r] = Answered(q, EnvironmentsResponse)]
                /\ outbound' = answered
                /\ signed' = signed
           ELSE \E random \in randomBytes :
                \E i \in {q.env + 1} :
                \E data \in {EnvironmentPaymentData(i, nowMs)} :
                \E call \in {generateAuthHeader(POST, CODES_URL,
                                  Some(JsonStringify(data)), nowMs, random)} :
                      /\ signed' = Append(signed, Logged(r, call))
                      /\ IF call.threw
                         THEN /\ reqs' = [reqs EXCEPT ![r] = Answered(
                                    [q EXCEPT !.env = i,
                                              !.results = Append(@, EnvironmentResult(i, Thrown))],
                                    EnvironmentsResponse)]
                              /\ outbound' = answered
                         ELSE /\ reqs' = [reqs EXCEPT ![r] = [q EXCEPT !.env = i]]
                              /\ outbound' = Append(answered,
                                    AxiosCall(r, POST, environments[i].url, CODES_URL,
                                              data, call.headers,
                                              TestEnvironmentsTimeoutMs))
    /\ UNCHANGED <<MOCK_MODE, API_KEY, API_SECRET, MERCHANT_ID, phase, nowMs, harness>>

Next ==
    \/ ExitAtStartup
    \/ Listen
    \/ Tick
    \/ Health
    \/ Debug
    \/ EndpointNotFound
    \/ \E input \in CreateInputs : CreatePayment(input)
    \/ \E id \in StatusIds : PaymentStatus(id)
    \/ \E r \in 1..MaxReqs : MockDelayElapsed(r)
    \/ \E r \in 1..MaxReqs, o \in ProviderOutcomes : CreatePaymentAnswered(r, o)
    \/ \E r \in 1..MaxReqs, o \in ProviderOutcomes : PaymentStatusAnswered(r, o)
    \/ TestPayPay
    \/ \E r \in 1..MaxReqs, o \in TestOutcomes : TestPayPayAnswered(r, o)
    \/ TestEnvironments
    \/ \E r \in 1..MaxReqs, o \in TestOutcomes : TestEnvironmentsAnswered(r, o)

Spec == Init /\ [][Next]_vars

\* The event loop runs the continuation of every await whose promise is
\* settled: a provider call that returned, failed or timed out, and a timer
\* that fired.
Fairness ==
    /\ WF_vars(\E r \in 1..MaxReqs, o \in ProviderOutcomes : CreatePaymentAnswered(r, o))
    /\ WF_vars(\E r \in 1..MaxReqs, o \in ProviderOutcomes : PaymentStatusAnswered(r, o))
    /\ WF_vars(\E r \in 1..MaxReqs : MockDelayElapsed(r))

SpecLive == Spec /\ Fairness

-----------------------------------------------------------------------------
(* What the claims speak of *)

\* empty or whitespace-only
IsBlank(s) == \A i \in 1..Len(s) : s[i] \in WhiteSpace

\* the fields of s between the separators
RECURSIVE SplitOn(_, _)
SplitOn(s, sep) ==
    IF \A i \in 1..Len(s) : s[i] # sep THEN <<s>>
    ELSE LET i == CHOOSE k \in 1..Len(s) :
                      s[k] = sep /\ \A m \in 1..(k - 1) : s[m] # sep
         IN  <<SubSeq(s, 1, i - 1)>> \o SplitOn(SubSeq(s, i + 1, Len(s)), sep)

\* every field followed by a newline
RECURSIVE JoinLines(_)
JoinLines(fields) ==
    IF fields = <<>> THEN <<>> ELSE Head(fields) \o NL \o JoinLines(Tail(fields))

Calls == {signed[k] : k \in 1..Len(signed)}
Returned(c) == ~c.threw

\* C1: the contentHash placed in the signature base string is the sentinel
\* "empty" exactly when the method is GET or the body is absent, empty or
\* whitespace-only; otherwise it is base64(MD5("application/json" + body)).
C1_ContentHashSentinel ==
    \A c \in Calls :
        LET sentinel == c.method = GET \/ ~c.body.has \/ IsBlank(c.body.v)
            lines == SplitOn(c.signatureString, "\n")
        IN  /\ Len(lines) = 7
            /\ lines[6] = c.contentHash
            /\ (c.contentHash = EMPTY) <=> sentinel
            /\ ~sentinel => c.contentHash = Md5Base64(APPLICATION_JSON, c.body.v)

\* a GET carrying a body got the sentinel and a POST carrying one got the digest
C1_Witness ==
    \E c, d \in Calls :
        /\ c.method = GET /\ c.body.has /\ ~IsBlank(c.body.v) /\ c.contentHash = EMPTY
        /\ d.method = POST /\ d.body.has /\ ~IsBlank(d.body.v) /\ d.contentHash # EMPTY

\* C2: a verifier that holds the secret takes key, signature, nonce and
\* timestamp out of the Authorization value, rebuilds the base string from
\* them and the request, and gets the same signature.
C2_SignatureVerifies ==
    \A c \in Calls :
        Returned(c) =>
            LET f == SplitOn(c.headers.Authorization, ":")
            IN  /\ Len(f) = 5
                /\ f[1] = <<"h", "m", "a", "c", " ", "O", "P", "A", "-", "A", "u", "t", "h">>
                /\ f[3] = HmacSha256Base64(c.secret.v,
                       JoinLines(<<c.method, c.resourceUrl, f[2], f[5], f[4], c.contentHash>>))
                /\ f[2] = Template(c.key)
                /\ f[4] = c.nonce
                /\ f[5] = NumberToString(c.timestamp)

\* a signed POST with a body, made after the clock moved to the next second
C2_Witness ==
    \E c \in Calls :
        /\ Returned(c) /\ c.method = POST /\ c.contentHash # EMPTY
        /\ c.timestamp > ClockStartMs \div MsPerSecond

SameRequest(a, b) ==
    /\ a.method = b.method /\ a.resourceUrl = b.resourceUrl /\ a.body = b.body
    /\ a.key = b.key /\ a.secret = b.secret /\ a.merchant = b.merchant

RunPairs ==
    {p \in (1..Len(signed)) \X (1..Len(signed)) :
        p[1] # p[2] /\ Returned(signed[p[1]]) /\ Returned(signed[p[2]])}

\* C3: two runs on the same (method, path, body, credential) return the same
\* headers when they saw the same timestamp and nonce, and different
\* signatures when they saw a different timestamp or a different nonce.
C3_DeterministicUpToClockAndNonce ==
    \A p \in RunPairs :
        LET a == signed[p[1]]
            b == signed[p[2]]
        IN  SameRequest(a, b) =>
              /\ (a.timestamp = b.timestamp /\ a.nonce = b.nonce) => a.headers = b.headers
              /\ (a.timestamp # b.timestamp \/ a.nonce # b.nonce) => a.signature # b.signature

\* both cases happened: the same request signed in the same second with
\* another nonce
C3_Witness ==
    \E p \in RunPairs :
        LET a == signed[p[1]]
            b == signed[p[2]]
        IN  /\ SameRequest(a, b) /\ a.timestamp = b.timestamp /\ a.nonce # b.nonce
            /\ a.method = POST /\ a.contentHash # EMPTY

\* which of the six inputs of the signature differ between two runs
Changed(a, b) ==
    {n \in {"secret", "method", "path", "body", "timestamp", "nonce"} :
        \/ n = "secret" /\ a.secret # b.secret
        \/ n = "method" /\ a.method # b.method
        \/ n = "path" /\ a.resourceUrl # b.resourceUrl
        \/ n = "body" /\ a.body # b.body
        \/ n = "timestamp" /\ a.timestamp # b.timestamp
        \/ n = "nonce" /\ a.nonce # b.nonce}

BlankBody(c) == ~c.body.has \/ IsBlank(c.body.v)

\* C4 as stated: changing exactly one of secret, method, path, body,
\* timestamp or nonce changes the signature, also for differing bodies under
\* GET and for differing whitespace-only bodies.
C4_AnyChangeChangesSignature ==
    \A p \in RunPairs :
        LET a == signed[p[1]]
            b == signed[p[2]]
        IN  (a.key = b.key /\ Cardinality(Changed(a, b)) = 1)
                => a.signature # b.signature

\* C4 as amended: changing exactly one of secret, method, path, timestamp or
\* nonce changes the signature; changing only the body changes it unless the
\* method is GET or both bodies are absent, empty or whitespace-only, and
\* then the signature is the same.
C4_ChangeChangesSignatureUnlessSentinel ==
    \A p \in RunPairs :
        LET a == signed[p[1]]
            b == signed[p[2]]
        IN  (a.key = b.key /\ Cardinality(Changed(a, b)) = 1) =>
              IF Changed(a, b) = {"body"}
              THEN (a.signature = b.signature)
                     <=> (a.method = GET \/ (BlankBody(a) /\ BlankBody(b)))
              ELSE a.signature # b.signature

\* two GETs that differ in the body only carry the same signature
C4_Witness ==
    \E p \in RunPairs :
        LET a == signed[p[1]]
            b == signed[p[2]]
        IN  /\ a.key = b.key /\ Changed(a, b) = {"body"} /\ a.method = GET
            /\ ~BlankBody(a) /\ ~BlankBody(b)
            /\ a.signature = b.signature

-----------------------------------------------------------------------------
(* The claims about the handlers *)

Requests == 1..Len(reqs)
\* the calls of generateAuthHeader and of axios that request r made
SignedBy(r) == {k \in 1..Len(signed) : signed[k].by = r}
OutboundBy(r) == {k \in 1..Len(outbound) : outbound[k].by = r}

\* s holds sub
Contains(s, sub) ==
    \E i \in 0..(Len(s) - Len(sub)) : SubSeq(s, i + 1, i + Len(sub)) = sub

MissingField(input) ==
    ~input.amount.has \/ ~input.merchantPaymentId.has \/ ~input.description.has

\* C5: a POST /create-payment in which amount, merchantPaymentId or
\* description is missing is answered 400 with success:false, and no auth
\* header is built and no provider call is made for it, mock mode or not.
C5_MissingFieldIsValidationFailure ==
    \A r \in Requests :
        (reqs[r].route = "/create-payment" /\ MissingField(reqs[r].input)) =>
            /\ Len(reqs[r].responses) = 1
            /\ reqs[r].responses[1].status = 400
            /\ reqs[r].responses[1].success = Some(FALSE)
            /\ SignedBy(r) = {}
            /\ OutboundBy(r) = {}

\* a request without amount was answered with mock mode off, while another
\* request did reach the provider
C5_Witness ==
    /\ ~MOCK_MODE
    /\ \E r \in Requests :
          /\ reqs[r].route = "/create-payment"
          /\ ~reqs[r].input.amount.has
          /\ reqs[r].input.merchantPaymentId.has /\ reqs[r].input.description.has
          /\ reqs[r].pc = "done"
    /\ \E r \in Requests :
          reqs[r].route = "/create-payment" /\ OutboundBy(r) # {}

\* C6: with mock mode off, /payment-status answers 404 'Payment not found'
\* exactly when the provider answered the status call with HTTP 404; every
\* other failure of the call is answered 500.
C6_NotFoundIffProvider404 ==
    \A r \in Requests :
        (reqs[r].route = "/payment-status" /\ ~MOCK_MODE /\ reqs[r].pc = "done") =>
            LET response == reqs[r].responses[Len(reqs[r].responses)]
                provider404 ==
                    \E k \in OutboundBy(r) :
                        /\ outbound[k].outcome.kind = "http_error"
                        /\ outbound[k].outcome.status = 404
                failed ==
                    \E k \in OutboundBy(r) : outbound[k].outcome.kind # "ok"
            IN  /\ (response.status = 404) <=> provider404
                /\ (response.status = 404) => response.error.text = "Payment not found"
                /\ (failed /\ ~provider404) => response.status = 500

\* one status request met a provider 404 and another one a timeout
C6_Witness ==
    /\ ~MOCK_MODE
    /\ \E r \in Requests :
          /\ reqs[r].route = "/payment-status" /\ reqs[r].pc = "done"
          /\ reqs[r].responses[1].status = 404
    /\ \E r \in Requests :
          /\ reqs[r].route = "/payment-status" /\ reqs[r].pc = "done"
          /\ \E k \in OutboundBy(r) : outbound[k].outcome.kind = "timeout"

\* C7: in mock mode a valid /create-payment answers success:true with a
\* deep-link that holds the merchantPaymentId and amount=<amount>, and
\* /payment-status answers success:true with status COMPLETED; neither calls
\* generateAuthHeader nor the provider.
C7_MockAnswers ==
    \A r \in Requests :
        LET q == reqs[r]
        IN  /\ (MOCK_MODE /\ q.route = "/create-payment" /\ ~MissingField(q.input)) =>
                 /\ SignedBy(r) = {} /\ OutboundBy(r) = {}
                 /\ q.pc = "done" =>
                      /\ Len(q.responses) = 1
                      /\ q.responses[1].success = Some(TRUE)
                      /\ q.responses[1].deeplink.has
                      /\ Contains(q.responses[1].deeplink.v, q.input.merchantPaymentId.v)
                      /\ Contains(q.responses[1].deeplink.v,
                                  <<"a", "m", "o", "u", "n", "t", "=">>
                                      \o NumberToString(q.input.amount.v))
            /\ (MOCK_MODE /\ q.route = "/payment-status") =>
                 /\ SignedBy(r) = {} /\ OutboundBy(r) = {}
                 /\ q.pc = "done" =>
                      /\ Len(q.responses) = 1
                      /\ q.responses[1].success = Some(TRUE)
                      /\ q.responses[1].data.has
                      /\ q.responses[1].data.v.status = "COMPLETED"

\* both mock answers were given
C7_Witness ==
    /\ MOCK_MODE
    /\ \E r \in Requests :
          /\ reqs[r].route = "/create-payment" /\ reqs[r].pc = "done"
          /\ reqs[r].responses[1].status = 200
    /\ \E r \in Requests :
          reqs[r].route = "/payment-status" /\ reqs[r].pc = "done"

\* C8: with the mock-mode flag set, no call to the provider is made, whatever
\* requests arrive on whatever routes.
C8_NoProviderCallInMockMode == MOCK_MODE => outbound = <<>>

\* C9: one /create-payment or /payment-status request makes at most one
\* provider call, and once that call has failed the request is answered
\* with a failure and no further call is made.
C9_SingleShot ==
    \A r \in Requests :
        reqs[r].route \in {"/create-payment", "/payment-status"} =>
            /\ Cardinality(OutboundBy(r)) <= 1
            /\ \A k \in OutboundBy(r) :
                  outbound[k].outcome.kind \in {"http_error", "network", "timeout"} =>
                      /\ reqs[r].pc = "done"
                      /\ Len(reqs[r].responses) = 1
                      /\ reqs[r].responses[1].success = Some(FALSE)
                      /\ reqs[r].responses[1].status \in {404, 500}

\* a status call failed on the network and a payment call timed out
C9_Witness ==
    /\ \E r \in Requests :
          /\ reqs[r].route = "/payment-status"
          /\ \E k \in OutboundBy(r) : outbound[k].outcome.kind = "network"
    /\ \E r \in Requests :
          /\ reqs[r].route = "/create-payment"
          /\ \E k \in OutboundBy(r) : outbound[k].outcome.kind = "timeout"

CallPairs ==
    {p \in (1..Len(signed)) \X (1..Len(signed)) :
        p[1] < p[2] /\ Returned(signed[p[1]]) /\ Returned(signed[p[2]])}

Observed(c) == <<c.timestamp, c.nonce>>

\* C10 as stated: no two calls of generateAuthHeader have used the same
\* (timestamp, nonce) pair, so no two provider calls carry the same
\* Authorization value.
C10_NoncePairNeverRepeats ==
    \A p \in CallPairs :
        /\ Observed(signed[p[1]]) # Observed(signed[p[2]])
        /\ signed[p[1]].headers.Authorization # signed[p[2]].headers.Authorization

\* C10 as amended: two calls of generateAuthHeader that observed different
\* (timestamp, nonce) pairs never return the same signature or the same
\* Authorization value; nothing keeps the random source from returning the
\* same nonce twice within one second, and then the pair repeats.
C10_DistinctPairsDistinctAuthorization ==
    \A p \in CallPairs :
        Observed(signed[p[1]]) # Observed(signed[p[2]]) =>
            /\ signed[p[1]].signature # signed[p[2]].signature
            /\ signed[p[1]].headers.Authorization # signed[p[2]].headers.Authorization

\* two requests for the status of the same payment were signed with the same
\* nonce in different seconds
C10_Witness ==
    \E p \in CallPairs :
        /\ signed[p[1]].by # signed[p[2]].by
        /\ signed[p[1]].method = GET /\ signed[p[2]].method = GET
        /\ signed[p[1]].resourceUrl = signed[p[2]].resourceUrl
        /\ signed[p[1]].nonce = signed[p[2]].nonce
        /\ signed[p[1]].timestamp # signed[p[2]].timestamp
        /\ \E k \in OutboundBy(signed[p[2]].by) :
              outbound[k].headers = signed[p[2]].headers

PaymentRoutes == {"/create-payment", "/payment-status"}

\* C11 as stated: with mock mode off, whenever the provider answers the call
\* of a valid /create-payment with a 2xx, the request is answered success:true
\* with the provider's body as data and the deep-link taken from that body,
\* whatever the shape of the body, a body without a nested data object
\* included.
C11_ProviderSuccessIsRelayed ==
    \A r \in Requests :
        (reqs[r].route = "/create-payment" /\ ~MOCK_MODE) =>
            \A k \in OutboundBy(r) :
                Resolved(outbound[k].outcome) =>
                    /\ reqs[r].pc = "done"
                    /\ reqs[r].responses =
                          << Response(200, Some(TRUE), NoError, outbound[k].outcome.data,
                                      outbound[k].outcome.data.v.deeplink, Some(FALSE)) >>

\* C12: whenever a provider call carries headers returned by
\* generateAuthHeader, the API key, the secret and the merchant id are all
\* present or the mock flag is set; and when one of the three is absent with
\* mock mode off, the process has exited or is about to, the server never
\* listens and no request is handled.
C12_CredentialInvariant ==
    /\ \A k \in 1..Len(outbound) :
          /\ outbound[k].headers # NoHeaders
          /\ \/ API_KEY.has /\ API_SECRET.has /\ MERCHANT_ID.has
             \/ MOCK_MODE
    /\ (~MOCK_MODE /\ (~API_KEY.has \/ ~API_SECRET.has \/ ~MERCHANT_ID.has)) =>
          /\ phase \in {"boot", "exited"}
          /\ reqs = <<>> /\ signed = <<>> /\ outbound = <<>>

\* with mock mode off and the three credentials set, a payment request and a
\* status request were signed and sent
C12_Witness ==
    /\ ~MOCK_MODE /\ phase = "listening"
    /\ API_KEY.has /\ API_SECRET.has /\ MERCHANT_ID.has
    /\ \E k \in 1..Len(outbound) :
          /\ outbound[k].method = POST
          /\ outbound[k].headers.XAssumeMerchant = MERCHANT_ID
    /\ \E k \in 1..Len(outbound) : outbound[k].method = GET

\* what one call of generateAuthHeader signed
SignedRequest(c) ==
    <<c.method, c.resourceUrl, c.body, c.key, c.timestamp, c.nonce>>

\* C13: for every provider call of /create-payment and /payment-status, the
\* method and the path signed are the method and the path of the call, the
\* body signed is the serialization of the payload sent (no body for the
\* GET), and the headers attached are the ones returned by the one call of
\* generateAuthHeader that the request made: any call that returned the same
\* headers signed the same request.
C13_SignedIsSent ==
    \A r \in Requests :
        reqs[r].route \in PaymentRoutes =>
            \A k \in OutboundBy(r) :
                \E c \in SignedBy(r) :
                    /\ SignedBy(r) = {c}
                    /\ Returned(signed[c])
                    /\ outbound[k].headers = signed[c].headers
                    /\ outbound[k].method = signed[c].method
                    /\ outbound[k].path = signed[c].resourceUrl
                    /\ outbound[k].base = PAYPAY_API_BASE
                    /\ IF reqs[r].route = "/create-payment"
                       THEN /\ outbound[k].method = POST
                            /\ outbound[k].path = CODES_URL
                            /\ outbound[k].payload # NoPaymentData
                            /\ signed[c].body = Some(JsonStringify(outbound[k].payload))
                       ELSE /\ outbound[k].method = GET
                            /\ outbound[k].path =
                                  PAYMENTS_URL \o reqs[r].input.merchantPaymentId.v
                            /\ outbound[k].payload = NoPaymentData
                            /\ signed[c].body = Undefined
                    /\ \A d \in 1..Len(signed) :
                          signed[d].headers = signed[c].headers =>
                              SignedRequest(signed[d]) = SignedRequest(signed[c])

\* a payment was sent with its payload and a status call without a body
C13_Witness ==
    /\ \E r \in Requests :
          /\ reqs[r].route = "/create-payment"
          /\ \E k \in OutboundBy(r) :
                outbound[k].payload.merchantPaymentId = reqs[r].input.merchantPaymentId.v
    /\ \E r \in Requests :
          /\ reqs[r].route = "/payment-status"
          /\ \E k \in OutboundBy(r) : outbound[k].payload = NoPaymentData

\* request r of one of the two routes is being handled
Handling(r) == r \in Requests /\ reqs[r].route \in PaymentRoutes
\* request r has got exactly one response
AnsweredOnce(r) == r \in Requests /\ Len(reqs[r].responses) = 1

\* C14: every /create-payment and /payment-status request that the server
\* starts handling never has two responses and, once the timer has fired or
\* the provider call has returned, failed or timed out, has exactly one,
\* whatever the path through the handler and however the requests interleave.
C14_ExactlyOneResponse ==
    /\ [](\A r \in Requests :
            reqs[r].route \in PaymentRoutes => Len(reqs[r].responses) <= 1)
    /\ \A r \in 1..MaxReqs : Handling(r) ~> AnsweredOnce(r)

\* two requests were awaiting the provider at once; the one that arrived
\* first was answered through the catch block after a 2xx whose body could
\* not be read, the other one after a timeout
C14_Witness ==
    \E r1, r2 \in Requests :
        /\ r1 < r2
        /\ reqs[r1].route = "/create-payment" /\ reqs[r2].route = "/payment-status"
        /\ AnsweredOnce(r1) /\ AnsweredOnce(r2)
        /\ \E k \in OutboundBy(r1) :
              Resolved(outbound[k].outcome) /\ ~outbound[k].outcome.data.v.nested
        /\ \E k \in OutboundBy(r2) : outbound[k].outcome.kind = "timeout"
        /\ reqs[r1].responses[1].status = 500

\* C15: on every call of generateAuthHeader made by /create-payment and
\* /payment-status the content-hash rule of src/unnamed/part_001 and the rule
\* of src/server.js give the same contentHash, the GET call being made
\* without a body; the two rules differ only for method GET with a body
\* that is not empty, and do differ there when the body is not blank.
C15_ContentHashRulesAgree ==
    /\ \A c \in 1..Len(signed) :
          reqs[signed[c].by].route \in PaymentRoutes =>
              /\ ContentHash_part_001(signed[c].method, DefaultBody(signed[c].body))
                    = signed[c].contentHash
              /\ signed[c].method = GET => signed[c].body = Undefined
    /\ \A m \in Methods, b \in Bodies :
          LET differ == ContentHash_part_001(m, DefaultBody(b))
                            # ContentHash(m, DefaultBody(b))
          IN  /\ differ => (m = GET /\ DefaultBody(b) # <<>>)
              /\ (m = GET /\ ~IsBlank(DefaultBody(b))) => differ

\* a status call signed without a body and a payment call signed with its
\* payload
C15_Witness ==
    /\ \E c \in 1..Len(signed) :
          /\ reqs[signed[c].by].route = "/payment-status"
          /\ signed[c].method = GET /\ signed[c].contentHash = EMPTY
    /\ \E c \in 1..Len(signed) :
          /\ reqs[signed[c].by].route = "/create-payment"
          /\ signed[c].method = POST /\ signed[c].contentHash # EMPTY

====
